---- MODULE Spec2Model ----
(***************************************************************************)
(* Book summarizer: the Segmentation Engine (smart-chunk lambda, in its    *)
(* structural and flat variants) and the Rate-Limited Summarization        *)
(* Controller (ai-summarization lambda).                                   *)
(*                                                                         *)
(* Texts are sequences of one-character strings, so that slicing,          *)
(* trimming, the chapter pattern and the sentence pattern are computed on  *)
(* characters as the JavaScript does.                                      *)
(***************************************************************************)
EXTENDS Integers, Sequences, FiniteSets, TLC

VARIABLES
    text,        \* smart-chunk: the text handed to smartChunkText
    cap,         \* smart-chunk: the maximum chunk size in characters
    segpc,       \* smart-chunk: which function has run ("ready" before)
    rawChunks,   \* smart-chunk: the local chunks array before the size fallback
    outChunks,   \* smart-chunk: the chunk sequence returned
    inChunks,    \* ai-summarization: the chunks fetched from the chunk store
    pc,          \* ai-summarization: where the handler is suspended
    i,           \* summarizeChunksWithRateLimit: the loop index
    tokensUsed,  \* summarizeChunksWithRateLimit: tokens counted in this window
    startTime,   \* summarizeChunksWithRateLimit: start of this window (ms)
    now,         \* Date.now() (ms)
    wakeAt,      \* the time the pending setTimeout fires (ms)
    summaries,   \* summarizeChunksWithRateLimit: the summaries pushed so far
    overarching, \* handler: overarchingSummary (<<>> while there is none)
    issued,      \* history: the generation requests posted, in order
    responses,   \* history: the outcome of each posted request, in order
    s3Object,    \* summary bucket: the final-summary objects put
    outputUrl,   \* metadata table: outputUrl of the record ("" while unset)
    result,      \* what the handler returned or threw ("" while running)
    resets,      \* history: the times tokensUsed was reset
    est,         \* estimateTokens: the texts it was applied to and its results
    service,     \* generation service: the message contents it may answer with
    parse,       \* robustJsonParse: the text it was applied to and its results
    wf           \* Step Functions execution: the stage reached and what was passed

\* wf while no execution of the state machine runs
NoWorkflow == [stage |-> "none"]

\* parse before robustJsonParse was applied
NoParse == [responseText |-> <<>>, done |-> FALSE]

\* est before estimateTokens was applied
NoEstimate == [appended |-> <<>>, a |-> 0, b |-> 0]

segvars == <<text, cap, segpc, rawChunks, outChunks>>

ctlvars == <<inChunks, pc, i, tokensUsed, startTime, now, wakeAt, summaries,
             overarching, issued, responses, s3Object, outputUrl, result, resets,
             service>>

fnvars == <<est, parse>>

vars == <<segvars, ctlvars, fnvars, wf>>

(***************************************************************************)
(* Characters                                                              *)
(***************************************************************************)
UpperCase == <<"A","B","C","D","E","F","G","H","I","J","K","L","M",
               "N","O","P","Q","R","S","T","U","V","W","X","Y","Z">>
LowerCase == <<"a","b","c","d","e","f","g","h","i","j","k","l","m",
               "n","o","p","q","r","s","t","u","v","w","x","y","z">>
Digits == {"0","1","2","3","4","5","6","7","8","9"}

\* \w of the regular expression: letters, digits and the underscore
WordChars == {UpperCase[k] : k \in 1..26} \cup {LowerCase[k] : k \in 1..26}
                 \cup Digits \cup {"_"}

\* what String.prototype.trim and \s treat as white space
Whitespace == {" ", "\n", "\t", "\r"}

\* [.!?] of the sentence pattern
Terminators == {".", "!", "?"}

\* the i flag of the chapter pattern: letters compare by their lower case
Lower(c) ==
    IF \E k \in 1..26 : UpperCase[k] = c
    THEN LowerCase[CHOOSE k \in 1..26 : UpperCase[k] = c]
    ELSE c

(***************************************************************************)
(* String primitives                                                       *)
(***************************************************************************)
\* s.slice(a, b) with 0 <= a <= b <= s.length
Slice(s, a, b) == SubSeq(s, a + 1, b)

RECURSIVE TrimStart(_)
TrimStart(s) ==
    IF s # <<>> /\ Head(s) \in Whitespace THEN TrimStart(Tail(s)) ELSE s

RECURSIVE TrimEnd(_)
TrimEnd(s) ==
    IF s # <<>> /\ s[Len(s)] \in Whitespace
    THEN TrimEnd(SubSeq(s, 1, Len(s) - 1))
    ELSE s

\* s.trim()
Trim(s) == TrimEnd(TrimStart(s))

\* group.join(' ')
RECURSIVE Join(_)
Join(group) ==
    IF group = <<>> THEN <<>>
    ELSE IF Len(group) = 1 THEN group[1]
    ELSE group[1] \o <<" ">> \o Join(Tail(group))

Chunk(name, content) == [chunkName |-> name, chunkContent |-> content]

(***************************************************************************)
(* The sentence-grouping loop, shared by fallbackChunking and by the flat  *)
(* smartChunkText (the two copies differ in the chunk names only).         *)
(***************************************************************************)
sentenceGroupSize == 4

RECURSIVE sentencesFrom(_, _)
sentencesFrom(s, start) ==
    LET ends == {q \in (start + 1)..Len(s) : s[q] \in Terminators}
    IN  IF ends = {} THEN <<>>
        ELSE LET q == CHOOSE e \in ends : \A f \in ends : e <= f
             IN  <<SubSeq(s, start + 1, q)>> \o sentencesFrom(s, q)

\* text.match(/[^.!?]*[.!?]/g) || [text]
splitSentences(s) ==
    LET m == sentencesFrom(s, 0)
    IN  IF m = <<>> THEN <<s>> ELSE m

RECURSIVE groupLoop(_, _, _, _, _)
groupLoop(sentences, k, namePrefix, maxChunkSize, st) ==
    IF k > Len(sentences) THEN st
    ELSE
      LET sentence == sentences[k]
          group == Append(st.sentenceGroup, sentence)
      IN  IF \/ Len(group) >= sentenceGroupSize
             \/ Len(st.currentChunk) + Len(sentence) > maxChunkSize
          THEN
            LET groupContent == Join(group)
                flush == Len(st.currentChunk) + Len(groupContent) > maxChunkSize
                saved == Chunk(namePrefix \o ToString(st.sectionNumber),
                               Trim(st.currentChunk))
            IN  groupLoop(sentences, k + 1, namePrefix, maxChunkSize,
                  [chunks |-> IF flush THEN Append(st.chunks, saved) ELSE st.chunks,
                   sectionNumber |-> IF flush THEN st.sectionNumber + 1
                                     ELSE st.sectionNumber,
                   currentChunk |-> (IF flush THEN <<>> ELSE st.currentChunk)
                                        \o groupContent \o <<" ">>,
                   sentenceGroup |-> <<>>])
          ELSE
            groupLoop(sentences, k + 1, namePrefix, maxChunkSize,
                      [st EXCEPT !.sentenceGroup = group])

groupSentences(s, namePrefix, maxChunkSize) ==
    LET st == groupLoop(splitSentences(s), 1, namePrefix, maxChunkSize,
                        [chunks |-> <<>>, sectionNumber |-> 1,
                         currentChunk |-> <<>>, sentenceGroup |-> <<>>])
    IN  IF Len(st.currentChunk) > 0
        THEN Append(st.chunks,
                    Chunk(namePrefix \o ToString(st.sectionNumber),
                          Trim(st.currentChunk)))
        ELSE st.chunks

\* the sub-chunks named as the flat strategy names its chunks, without the
\* base name
fallbackChunkingFlatNames(s, baseName, maxChunkSize) ==
    groupSentences(s, "Section ", maxChunkSize)

\* fallbackChunking(text, baseName, maxChunkSize)
fallbackChunking(s, baseName, maxChunkSize) ==
    groupSentences(s, baseName \o ".", maxChunkSize)

\* smartChunkText of the flat variant; chunkSize is its local constant
flatSmartChunkText(s, chunkSize) ==
    groupSentences(s, "Section ", chunkSize)

(***************************************************************************)
(* The structural smartChunkText                                           *)
(***************************************************************************)
chapterWord == <<"c", "h", "a", "p", "t", "e", "r">>

\* /\bchapter\b/gi matches at the 0-based index p
MatchAt(s, p) ==
    /\ p + Len(chapterWord) <= Len(s)
    /\ \A j \in 1..Len(chapterWord) : Lower(s[p + j]) = chapterWord[j]
    /\ (p = 0 \/ s[p] \notin WordChars)
    /\ (p + Len(chapterWord) = Len(s)
          \/ s[p + Len(chapterWord) + 1] \notin WordChars)

\* Array.from(text.matchAll(chapterPattern)), as the indices of the matches
RECURSIVE matchesFrom(_, _)
matchesFrom(s, p) ==
    IF p + Len(chapterWord) > Len(s) THEN <<>>
    ELSE IF MatchAt(s, p)
         THEN <<p>> \o matchesFrom(s, p + Len(chapterWord))
         ELSE matchesFrom(s, p + 1)

chapterMatches(s) == matchesFrom(s, 0)

ChapterName(n, k) == "Chapter " \o ToString(n) \o "." \o ToString(k)

\* the for loop over matches.entries(); mi is the 1-based position in ms
RECURSIVE chapterLoop(_, _, _, _)
chapterLoop(s, ms, mi, st) ==
    IF mi > Len(ms) THEN st
    ELSE
      LET index == ms[mi]
          chapterNumber == st.chapterNumber + 1
          sectionNumber == 1
      IN  IF index > st.lastIndex
          THEN
            LET before == Trim(Slice(s, st.lastIndex, index))
                chunks1 ==
                    IF st.lastIndex > 0 /\ before # <<>>
                    THEN Append(st.chunks,
                                Chunk(ChapterName(chapterNumber - 1, sectionNumber),
                                      before))
                    ELSE st.chunks
                nextIndex == IF mi + 1 <= Len(ms) THEN ms[mi + 1] ELSE Len(s)
                chapterContent == Trim(Slice(s, index, nextIndex))
            IN  chapterLoop(s, ms, mi + 1,
                  [chunks |-> Append(chunks1,
                                     Chunk(ChapterName(chapterNumber, 1),
                                           chapterContent)),
                   chapterNumber |-> chapterNumber,
                   lastIndex |-> nextIndex])
          ELSE
            chapterLoop(s, ms, mi + 1, [st EXCEPT !.chapterNumber = chapterNumber])

\* the else branch as it would be with the content trimmed like every other
\* chunk content
noPatternChunksTrimmed(s) == <<Chunk("Section 1.1", Trim(s))>>

\* the else branch: no pattern found, the entire text is one section
noPatternChunks(s) == <<Chunk("Section 1.1", s)>>

\* the local chunks array of smartChunkText before the size fallback
structuralChunks(s) ==
    LET ms == chapterMatches(s)
    IN  IF Len(ms) > 0
        THEN
          LET prefixContent == Trim(Slice(s, 0, ms[1]))
              chunks0 == IF ms[1] > 0 /\ prefixContent # <<>>
                         THEN <<Chunk("Prefix 1.1", prefixContent)>>
                         ELSE <<>>
              st == chapterLoop(s, ms, 1,
                                [chunks |-> chunks0, chapterNumber |-> 0,
                                 lastIndex |-> 0])
              rest == Trim(Slice(s, st.lastIndex, Len(s)))
          IN  IF st.lastIndex < Len(s) /\ rest # <<>>
              THEN Append(st.chunks,
                          Chunk("Suffix " \o ToString(st.chapterNumber + 1) \o ".1",
                                rest))
              ELSE st.chunks
        ELSE noPatternChunks(s)

\* the fallback pass over chunks that builds finalChunks
RECURSIVE sizeBound(_, _)
sizeBound(chunks, chunkSize) ==
    IF chunks = <<>> THEN <<>>
    ELSE LET chunk == Head(chunks)
         IN  (IF Len(chunk.chunkContent) > chunkSize
              THEN fallbackChunking(chunk.chunkContent, chunk.chunkName, chunkSize)
              ELSE <<chunk>>)
             \o sizeBound(Tail(chunks), chunkSize)

\* smartChunkText of the structural variant; chunkSize is its local constant
smartChunkText(s, chunkSize) == sizeBound(structuralChunks(s), chunkSize)

(***************************************************************************)
(* Generation responses.  A response is a sequence of lexical units: the   *)
(* punctuation of JSON, the quote, literal names, digits, white space,     *)
(* words, and the two code-fence markers.                                  *)
(***************************************************************************)
\* the marker of three backquotes followed by json, and the bare marker of
\* three backquotes, each one unit
FenceJson == "<fence>json"
Fence == "<fence>"
Quote == "\""

\* responseText.replace(/<fence>json|<fence>/g, '')
RECURSIVE stripFences(_)
stripFences(r) ==
    IF r = <<>> THEN <<>>
    ELSE IF Head(r) \in {FenceJson, Fence} THEN stripFences(Tail(r))
    ELSE <<Head(r)>> \o stripFences(Tail(r))

RECURSIVE skipWs(_, _)
skipWs(r, p) ==
    IF p <= Len(r) /\ r[p] \in Whitespace THEN skipWs(r, p + 1) ELSE p

ParseFail == [ok |-> FALSE, next |-> 0, val |-> <<>>]

\* the closing quote of the string literal whose opening quote is at p
RECURSIVE closingQuote(_, _)
closingQuote(r, p) ==
    IF p > Len(r) THEN 0
    ELSE IF r[p] = Quote THEN p
    ELSE closingQuote(r, p + 1)

RECURSIVE digitsEnd(_, _)
digitsEnd(r, p) ==
    IF p <= Len(r) /\ r[p] \in Digits THEN digitsEnd(r, p + 1) ELSE p

\* JSON.parse: value, members of an object, elements of an array.  A parsed
\* value is written as its units without the insignificant white space.
RECURSIVE parseValue(_, _)
RECURSIVE parseMembers(_, _)
RECURSIVE parseElements(_, _)

parseValue(r, p0) ==
    LET p == skipWs(r, p0)
    IN  IF p > Len(r) THEN ParseFail
        ELSE IF r[p] = Quote
        THEN LET q == closingQuote(r, p + 1)
             IN  IF q = 0 THEN ParseFail
                 ELSE [ok |-> TRUE, next |-> q + 1, val |-> SubSeq(r, p, q)]
        ELSE IF r[p] \in Digits
        THEN LET q == digitsEnd(r, p)
             IN  [ok |-> TRUE, next |-> q, val |-> SubSeq(r, p, q - 1)]
        ELSE IF r[p] \in {"null", "true", "false"}
        THEN [ok |-> TRUE, next |-> p + 1, val |-> <<r[p]>>]
        ELSE IF r[p] = "{"
        THEN LET q == skipWs(r, p + 1)
             IN  IF q <= Len(r) /\ r[q] = "}"
                 THEN [ok |-> TRUE, next |-> q + 1, val |-> <<"{", "}">>]
                 ELSE LET m == parseMembers(r, q)
                      IN  IF m.ok
                          THEN [ok |-> TRUE, next |-> m.next,
                                val |-> <<"{">> \o m.val \o <<"}">>]
                          ELSE ParseFail
        ELSE IF r[p] = "["
        THEN LET q == skipWs(r, p + 1)
             IN  IF q <= Len(r) /\ r[q] = "]"
                 THEN [ok |-> TRUE, next |-> q + 1, val |-> <<"[", "]">>]
                 ELSE LET e == parseElements(r, q)
                      IN  IF e.ok
                          THEN [ok |-> TRUE, next |-> e.next,
                                val |-> <<"[">> \o e.val \o <<"]">>]
                          ELSE ParseFail
        ELSE ParseFail

parseMembers(r, p0) ==
    LET key == parseValue(r, p0)
    IN  IF ~key.ok \/ key.val[1] # Quote THEN ParseFail
        ELSE
          LET c == skipWs(r, key.next)
          IN  IF c > Len(r) \/ r[c] # ":" THEN ParseFail
              ELSE
                LET v == parseValue(r, c + 1)
                    e == skipWs(r, v.next)
                IN  IF ~v.ok \/ e > Len(r) THEN ParseFail
                    ELSE IF r[e] = "}"
                    THEN [ok |-> TRUE, next |-> e + 1,
                          val |-> key.val \o <<":">> \o v.val]
                    ELSE IF r[e] = ","
                    THEN LET m == parseMembers(r, e + 1)
                         IN  IF m.ok
                             THEN [ok |-> TRUE, next |-> m.next,
                                   val |-> key.val \o <<":">> \o v.val
                                              \o <<",">> \o m.val]
                             ELSE ParseFail
                    ELSE ParseFail

parseElements(r, p0) ==
    LET v == parseValue(r, p0)
        e == skipWs(r, v.next)
    IN  IF ~v.ok \/ e > Len(r) THEN ParseFail
        ELSE IF r[e] = "]"
        THEN [ok |-> TRUE, next |-> e + 1, val |-> v.val]
        ELSE IF r[e] = ","
        THEN LET m == parseElements(r, e + 1)
             IN  IF m.ok
                 THEN [ok |-> TRUE, next |-> m.next,
                       val |-> v.val \o <<",">> \o m.val]
                 ELSE ParseFail
        ELSE ParseFail

\* JSON.parse(text): ok is FALSE where it throws
jsonParse(r) ==
    LET v == parseValue(r, 1)
    IN  IF v.ok /\ skipWs(r, v.next) > Len(r)
        THEN [ok |-> TRUE, val |-> v.val]
        ELSE [ok |-> FALSE, val |-> <<>>]

\* robustJsonParse as it would be if the catch returned an empty object
robustJsonParseLenient(responseText) ==
    LET cleanedText == Trim(stripFences(responseText))
    IN  IF jsonParse(cleanedText).ok THEN jsonParse(cleanedText)
        ELSE [ok |-> TRUE, val |-> <<"{", "}">>]

\* robustJsonParse(responseText): ok is FALSE where it throws
\* Error('AI response was not valid JSON')
robustJsonParse(responseText) ==
    LET cleanedText == Trim(stripFences(responseText))
    IN  jsonParse(cleanedText)

(***************************************************************************)
(* Token estimation.  A chunk of the controller model carries the number   *)
(* of pieces chunkContent.split(/\s+/) yields instead of the content.      *)
(***************************************************************************)
\* text.split(/\s+/): the pieces between the runs of white space, the empty
\* pieces at the ends included
RECURSIVE splitWhitespace(_, _)
splitWhitespace(s, piece) ==
    IF s = <<>> THEN <<piece>>
    ELSE IF Head(s) \in Whitespace
         THEN <<piece>> \o splitWhitespace(TrimStart(s), <<>>)
         ELSE splitWhitespace(Tail(s), Append(piece, Head(s)))

\* Math.floor in place of Math.ceil
estimateTokensFloor(words) == (words * 133) \div 100

\* Math.ceil(words * 1.33)
estimateTokens(words) == (words * 133 + 99) \div 100

\* estimateTokens(text), from the text to the estimate
estimateTokensOfText(s) == estimateTokens(Len(splitWhitespace(s, <<>>)))

MAX_TOKENS_PER_MINUTE == 30000
MAX_TOKENS_PER_REQUEST == 6000
ThrottleWindowMs == 65000
SettlingDelayMs == 15000

(***************************************************************************)
(* Inputs of the segmentation model                                        *)
(***************************************************************************)
\* the two local chunkSize constants of the source
chunkSize == 100000
flatChunkSize == 40000

\* caps scaled down to the size of the model's texts, next to the real ones
SmallCap == 4
MediumCap == 9
Caps == {SmallCap, MediumCap, flatChunkSize, chunkSize}

MaxPieces == 5

Pieces == { <<"C", "h", "a", "p", "t", "e", "r">>, <<" ">>, <<"a">>, <<"b", ".">> }

RECURSIVE Flatten(_)
Flatten(ps) == IF ps = <<>> THEN <<>> ELSE Head(ps) \o Flatten(Tail(ps))

PieceTexts == { Flatten(ps) : ps \in UNION { [1..n -> Pieces] : n \in 0..MaxPieces } }

\* "Chapter 1. Hello world. Chapter 2. Goodbye world."
ScenarioText ==
    <<"C","h","a","p","t","e","r"," ","1","."," ",
      "H","e","l","l","o"," ","w","o","r","l","d","."," ",
      "C","h","a","p","t","e","r"," ","2","."," ",
      "G","o","o","d","b","y","e"," ","w","o","r","l","d",".">>

\* texts with three and four markers, the first one at and after index 0
ChapterPiece == <<"C", "h", "a", "p", "t", "e", "r">>
MarkerTexts ==
    { Flatten(ps) : ps \in
        { <<<<" ">>, ChapterPiece, <<" ">>, <<"a">>, <<" ">>, ChapterPiece,
            <<" ">>, <<"b", ".">>, <<" ">>, ChapterPiece>>,
          <<<<"a">>, <<" ">>, ChapterPiece, <<" ">>, ChapterPiece, <<" ">>,
            <<"b", ".">>, ChapterPiece, <<" ">>, <<"a">>, <<" ">>, ChapterPiece>>,
          <<ChapterPiece, <<" ">>, <<"a">>, <<" ">>, ChapterPiece, <<" ">>,
            ChapterPiece, <<" ">>, <<"b", ".">>, <<" ">>, ChapterPiece>> } }

Texts == PieceTexts \cup {ScenarioText} \cup MarkerTexts

(***************************************************************************)
(* Segmentation: state machine                                             *)
(***************************************************************************)
\* the controller's state while the segmentation model runs
CtlIdle ==
    /\ inChunks = <<>>
    /\ pc = "idle"
    /\ i = 0
    /\ tokensUsed = 0
    /\ startTime = 0
    /\ now = 0
    /\ wakeAt = 0
    /\ summaries = <<>>
    /\ overarching = <<>>
    /\ issued = <<>>
    /\ responses = <<>>
    /\ s3Object = <<>>
    /\ outputUrl = ""
    /\ result = ""
    /\ resets = <<>>
    /\ service = {}

SegInit ==
    /\ CtlIdle
    /\ text \in Texts
    /\ cap \in Caps
    /\ segpc = "ready"
    /\ rawChunks = <<>>
    /\ outChunks = <<>>
    /\ est = NoEstimate
    /\ parse = NoParse
    /\ wf = NoWorkflow

\* the structural smart-chunk handler calls smartChunkText(textContent)
RunStructural ==
    /\ segpc = "ready"
    /\ segpc' = "structural"
    /\ rawChunks' = structuralChunks(text)
    /\ outChunks' = smartChunkText(text, cap)
    /\ UNCHANGED <<text, cap, ctlvars, fnvars, wf>>

\* the flat smart-chunk handler calls smartChunkText(textContent)
RunFlat ==
    /\ segpc = "ready"
    /\ segpc' = "flat"
    /\ rawChunks' = <<>>
    /\ outChunks' = flatSmartChunkText(text, cap)
    /\ UNCHANGED <<text, cap, ctlvars, fnvars, wf>>

\* fallbackChunking called on a chunk content of its own
RunFallback ==
    /\ segpc = "ready"
    /\ segpc' = "fallback"
    /\ rawChunks' = <<>>
    /\ outChunks' = fallbackChunking(text, "Base", cap)
    /\ UNCHANGED <<text, cap, ctlvars, fnvars, wf>>

SegNext == RunStructural \/ RunFlat \/ RunFallback

SegSpec == SegInit /\ [][SegNext]_vars

(***************************************************************************)
(* estimateTokens applied to a text and to the text with content appended  *)
(***************************************************************************)
MaxAppended == 2

\* content to append: not empty after trimming
Appendices ==
    { x \in { Flatten(ps) : ps \in UNION { [1..n -> Pieces] : n \in 1..MaxAppended } } :
          Trim(x) # <<>> }

EstInit ==
    /\ CtlIdle
    /\ text \in Texts
    /\ cap = chunkSize
    /\ segpc = "text"
    /\ rawChunks = <<>>
    /\ outChunks = <<>>
    /\ est = NoEstimate
    /\ parse = NoParse
    /\ wf = NoWorkflow

RunEstimate ==
    /\ segpc = "text"
    /\ segpc' = "estimated"
    /\ \E x \in Appendices :
          est' = [appended |-> x,
                  a |-> estimateTokensOfText(text),
                  b |-> estimateTokensOfText(text \o x)]
    /\ UNCHANGED <<text, cap, rawChunks, outChunks, ctlvars, parse, wf>>

EstNext == RunEstimate

EstSpec == EstInit /\ [][EstNext]_vars

(***************************************************************************)
(* Inputs of the controller model                                          *)
(***************************************************************************)
MaxChunks == 3

\* split counts whose estimates are 9975, 19950 and 30058 tokens
WordCounts == {7500, 15000, 22600}

ChunkSeqs ==
    UNION { [1..n -> [chunkName : {"c"}, words : WordCounts]] : n \in 0..MaxChunks }

\* how long a generation request takes (ms)
Durations == {1000, 64000}

RespPlainA == <<"{", Quote, "summary", Quote, ":", Quote, "A", Quote, "}">>
RespFencedB == <<FenceJson, "\n", "{", Quote, "summary", Quote, ":", " ",
                 Quote, "B", Quote, "}", "\n", Fence>>
RespProse == <<"The", " ", "book", " ", "ends", ".">>
RespProseDigit == <<"1", " ", "book", " ", "in", " ", "2", " ", "parts">>

\* JSON, but a bare number and no summary object
RespNumber == <<"7">>

\* message.content of a 2xx answer: every text of the model, the texts of a
\* service that answers with a summary object or in prose, and the texts of
\* a service that may answer with JSON of another structure
ResponseTexts == {RespPlainA, RespFencedB, RespProse, RespProseDigit, RespNumber}
SummaryOrProse == {RespPlainA, RespFencedB, RespProse, RespProseDigit}
SummaryOrOther == {RespPlainA, RespNumber, RespProse}

\* a plain-prose answer: no JSON punctuation, no quote, no fence, and a word
IsProse(r) ==
    /\ \A k \in 1..Len(r) :
          r[k] \notin {"{", "}", "[", "]", ":", ",", Quote, FenceJson, Fence}
    /\ \E k \in 1..Len(r) :
          r[k] \notin Whitespace \cup Digits \cup {"null", "true", "false"}

\* robustJsonParse(response.data.choices[0].message.content.trim()): what
\* summarizeChunk and generateOverarchingSummary make of each answer
Parsed == [r \in ResponseTexts |-> robustJsonParse(Trim(r))]

\* the entry of the responses history for outcome o received at time t
Answer(o, t) == [status |-> o.status, body |-> o.body, at |-> t]

Outcomes ==
    {[status |-> "error", body |-> <<>>]}
        \cup {[status |-> "ok", body |-> r] : r \in service}

(***************************************************************************)
(* robustJsonParse applied to a text as it is and inside code-block        *)
(* markers, next to JSON.parse of the text                                 *)
(***************************************************************************)
MaxStringUnits == 2

\* the contents of string literals: letters, blanks and the marker units
StringUnits == {"A", " ", Fence, FenceJson}
Strings == UNION { [1..n -> StringUnits] : n \in 0..MaxStringUnits }
Literal(str) == <<Quote>> \o str \o <<Quote>>

\* {"key": value} with a string or a number as the value
ObjectTexts ==
    { <<"{">> \o Literal(k) \o <<":", " ">> \o v \o <<"}">> :
          k \in Strings, v \in {Literal(str) : str \in Strings} \cup {<<"7">>} }

JsonTexts == ObjectTexts \cup ResponseTexts

ParseInit ==
    /\ CtlIdle
    /\ text = <<>>
    /\ cap = chunkSize
    /\ segpc = "idle"
    /\ rawChunks = <<>>
    /\ outChunks = <<>>
    /\ est = NoEstimate
    /\ parse \in {[responseText |-> r, done |-> FALSE] : r \in JsonTexts}
    /\ wf = NoWorkflow

RunParse ==
    /\ ~parse.done
    /\ LET r == parse.responseText
       IN  parse' = [responseText |-> r,
                     done |-> TRUE,
                     unfenced |-> robustJsonParse(r),
                     fenced |-> robustJsonParse(<<Fence, "\n">> \o r \o <<"\n", Fence>>),
                     fencedJson |-> robustJsonParse(<<FenceJson, "\n">> \o r
                                                       \o <<"\n", Fence>>),
                     plain |-> jsonParse(r)]
    /\ UNCHANGED <<segvars, ctlvars, est, wf>>

ParseNext == RunParse

ParseSpec == ParseInit /\ [][ParseNext]_vars

(***************************************************************************)
(* The workflow getFile -> smartChunk -> aiSummarization of the            *)
(* SummarizerStack, with the get-file handler                              *)
(***************************************************************************)
\* what dynamoDb.get finds under the id: no item, or an item whose s3Uri and
\* fileName may be missing ("")
Items ==
    {[found |-> FALSE, s3Uri |-> "", fileName |-> ""]}
        \cup [found : {TRUE}, s3Uri : {"", "s3://in/book"},
              fileName : {"", "book.pdf", "book.txt", "book.doc"}]

\* the calls of the get-file handler that may reject
Faults == {"dynamoDb.get", "s3.getObject", "pdfParse", "s3.putObject"}

StatusResult(code) == [statusCode |-> code]

\* the get-file handler: what it returns; it never throws
getFileHandler(id, item, faults) ==
    IF "dynamoDb.get" \in faults THEN StatusResult(500)
    ELSE IF ~item.found \/ item.s3Uri = "" \/ item.fileName = ""
    THEN StatusResult(404)
    ELSE IF "s3.getObject" \in faults THEN StatusResult(500)
    ELSE IF item.fileName = "book.pdf" /\ "pdfParse" \in faults
    THEN StatusResult(500)
    ELSE IF item.fileName \notin {"book.pdf", "book.txt"} THEN StatusResult(400)
    ELSE IF "s3.putObject" \in faults THEN StatusResult(500)
    ELSE [id |-> id, s3Uri |-> "s3://out/outputs/uuid.txt"]

WfInit ==
    /\ CtlIdle
    /\ text = <<>>
    /\ cap = chunkSize
    /\ segpc = "idle"
    /\ rawChunks = <<>>
    /\ outChunks = <<>>
    /\ est = NoEstimate
    /\ parse = NoParse
    /\ wf \in [stage : {"getFile"}, id : {"id"}, item : Items,
                faults : SUBSET Faults, output : {<<>>}, event : {<<>>},
                execution : {"RUNNING"}]

WfUnchanged == UNCHANGED <<segvars, ctlvars, fnvars>>

\* Get File Task: the lambda is invoked and its handler returns
GetFileTask ==
    /\ wf.stage = "getFile"
    /\ wf' = [wf EXCEPT !.stage = "getFileReturned",
                        !.output = getFileHandler(wf.id, wf.item, wf.faults)]
    /\ WfUnchanged

\* the invocation did not fail, so the task succeeds: its payload is the
\* input of the Smart Chunk Task, whose lambda is invoked
SmartChunkTask ==
    /\ wf.stage = "getFileReturned"
    /\ wf' = [wf EXCEPT !.stage = "smartChunk", !.event = wf.output]
    /\ WfUnchanged

\* the smart-chunk handler with an event without s3Uri: parseS3Uri throws,
\* the task fails and with it the execution
SmartChunkThrows ==
    /\ wf.stage = "smartChunk"
    /\ "s3Uri" \notin DOMAIN wf.event
    /\ wf' = [wf EXCEPT !.stage = "end", !.execution = "FAILED"]
    /\ WfUnchanged

\* the smart-chunk handler returns (or rejects on a storage error)
SmartChunkReturns ==
    /\ wf.stage = "smartChunk"
    /\ "s3Uri" \in DOMAIN wf.event
    /\ \/ wf' = [wf EXCEPT !.stage = "aiSummarization"]
       \/ wf' = [wf EXCEPT !.stage = "end", !.execution = "FAILED"]
    /\ WfUnchanged

\* AI Summarization Task: the handler returns or throws
AiSummarizationTask ==
    /\ wf.stage = "aiSummarization"
    /\ \E e \in {"SUCCEEDED", "FAILED"} :
          wf' = [wf EXCEPT !.stage = "end", !.execution = e]
    /\ WfUnchanged

WfNext ==
    \/ GetFileTask
    \/ SmartChunkTask
    \/ SmartChunkThrows
    \/ SmartChunkReturns
    \/ AiSummarizationTask

WfSpec == WfInit /\ [][WfNext]_vars

(***************************************************************************)
(* The ai-summarization handler                                            *)
(***************************************************************************)
SegIdle ==
    /\ text = <<>>
    /\ cap = chunkSize
    /\ segpc = "idle"
    /\ rawChunks = <<>>
    /\ outChunks = <<>>
    /\ est = NoEstimate
    /\ parse = NoParse
    /\ wf = NoWorkflow

Init ==
    /\ SegIdle
    /\ inChunks \in ChunkSeqs
    /\ pc = "start"
    /\ i = 0
    /\ tokensUsed = 0
    /\ startTime = 0
    /\ now = 0
    /\ wakeAt = 0
    /\ summaries = <<>>
    /\ overarching = <<>>
    /\ issued = <<>>
    /\ responses = <<>>
    /\ s3Object = <<>>
    /\ outputUrl = ""
    /\ result = ""
    /\ resets = <<>>
    /\ service = SummaryOrProse

estimatedTokens == estimateTokens(inChunks[i + 1].words)

\* axios.post for the chunk at the loop index: the request is on its way
PostChunkRequest(at) ==
    /\ issued' = Append(issued, [kind |-> "chunk", chunk |-> i + 1, at |-> at,
                                 tokens |-> estimatedTokens,
                                 max_tokens |-> MAX_TOKENS_PER_REQUEST])
    /\ pc' = "request"

\* the handler throws: nothing further runs
Throw(what) ==
    /\ pc' = "failed"
    /\ result' = what

\* fetchChunksFromS3 resolves and summarizeChunksWithRateLimit starts
FetchChunks ==
    /\ pc = "start"
    /\ pc' = "loop"
    /\ i' = 0
    /\ summaries' = <<>>
    /\ tokensUsed' = 0
    /\ startTime' = now
    /\ UNCHANGED <<segvars, fnvars, wf, service, inChunks, now, wakeAt, overarching, issued, responses,
                   s3Object, outputUrl, result, resets>>

\* fetchChunksFromS3 rejects
FetchChunksFails ==
    /\ pc = "start"
    /\ Throw("fetch error")
    /\ UNCHANGED <<segvars, fnvars, wf, service, inChunks, i, tokensUsed, startTime, now, wakeAt,
                   summaries, overarching, issued, responses, s3Object,
                   outputUrl, resets>>

\* the loop body as it would be without the await on summarizeChunk: the
\* request is posted and the loop goes on
IssueWithoutAwait ==
    /\ pc = "loop"
    /\ i < Len(inChunks)
    /\ ~(tokensUsed + estimatedTokens > MAX_TOKENS_PER_MINUTE)
    /\ issued' = Append(issued, [kind |-> "chunk", chunk |-> i + 1, at |-> now,
                                 tokens |-> estimatedTokens,
                                 max_tokens |-> MAX_TOKENS_PER_REQUEST])
    /\ tokensUsed' = tokensUsed + estimatedTokens
    /\ i' = i + 1
    /\ UNCHANGED <<segvars, fnvars, wf, service, inChunks, pc, startTime, now, wakeAt,
                   summaries, overarching, responses, s3Object, outputUrl,
                   result, resets>>

\* loop body, budget not exceeded: the request is posted at once
IssueWithinBudget ==
    /\ pc = "loop"
    /\ i < Len(inChunks)
    /\ ~(tokensUsed + estimatedTokens > MAX_TOKENS_PER_MINUTE)
    /\ PostChunkRequest(now)
    /\ UNCHANGED <<segvars, fnvars, wf, service, inChunks, i, tokensUsed, startTime, now, wakeAt,
                   summaries, overarching, responses, s3Object, outputUrl,
                   result, resets>>

\* the wait as it would be with 65 s plus the elapsed time
ThrottleLongWait ==
    /\ pc = "loop"
    /\ i < Len(inChunks)
    /\ tokensUsed + estimatedTokens > MAX_TOKENS_PER_MINUTE
    /\ now - startTime < ThrottleWindowMs
    /\ wakeAt' = now + ThrottleWindowMs + (now - startTime)
    /\ pc' = "throttled"
    /\ UNCHANGED <<segvars, fnvars, wf, service, inChunks, i, tokensUsed, startTime,
                   now, summaries, overarching, issued, responses, s3Object,
                   outputUrl, result, resets>>

\* the wait as it would be with the whole 65 s in place of remainingTime
ThrottleFullWait ==
    /\ pc = "loop"
    /\ i < Len(inChunks)
    /\ tokensUsed + estimatedTokens > MAX_TOKENS_PER_MINUTE
    /\ now - startTime < ThrottleWindowMs
    /\ wakeAt' = now + ThrottleWindowMs
    /\ pc' = "throttled"
    /\ UNCHANGED <<segvars, fnvars, wf, service, inChunks, i, tokensUsed, startTime, now, summaries,
                   overarching, issued, responses, s3Object, outputUrl, result,
                   resets>>

\* loop body, budget exceeded and the window still open: setTimeout
Throttle ==
    /\ pc = "loop"
    /\ i < Len(inChunks)
    /\ tokensUsed + estimatedTokens > MAX_TOKENS_PER_MINUTE
    /\ LET elapsedTime == now - startTime
           remainingTime == ThrottleWindowMs - elapsedTime
       IN  /\ elapsedTime < ThrottleWindowMs
           /\ wakeAt' = now + remainingTime
    /\ pc' = "throttled"
    /\ UNCHANGED <<segvars, fnvars, wf, service, inChunks, i, tokensUsed, startTime, now, summaries,
                   overarching, issued, responses, s3Object, outputUrl, result,
                   resets>>

\* the throttle timer firing as it would without the reset of tokensUsed
ThrottleWakeNoReset ==
    /\ pc = "throttled"
    /\ now' = wakeAt
    /\ startTime' = now'
    /\ resets' = Append(resets, now')
    /\ PostChunkRequest(now')
    /\ UNCHANGED <<segvars, fnvars, wf, service, inChunks, i, tokensUsed, wakeAt,
                   summaries, overarching, responses, s3Object, outputUrl, result>>

\* the throttle timer fires: reset, then the request is posted
ThrottleWake ==
    /\ pc = "throttled"
    /\ now' = wakeAt
    /\ tokensUsed' = 0
    /\ startTime' = now'
    /\ resets' = Append(resets, now')
    /\ PostChunkRequest(now')
    /\ UNCHANGED <<segvars, fnvars, wf, service, inChunks, i, wakeAt, summaries, overarching,
                   responses, s3Object, outputUrl, result>>

\* loop body, budget exceeded but the window already over: reset without
\* waiting, then the request is posted
ResetWithoutWait ==
    /\ pc = "loop"
    /\ i < Len(inChunks)
    /\ tokensUsed + estimatedTokens > MAX_TOKENS_PER_MINUTE
    /\ ~(now - startTime < ThrottleWindowMs)
    /\ tokensUsed' = 0
    /\ startTime' = now
    /\ resets' = Append(resets, now)
    /\ PostChunkRequest(now)
    /\ UNCHANGED <<segvars, fnvars, wf, service, inChunks, i, now, wakeAt, summaries, overarching,
                   responses, s3Object, outputUrl, result>>

\* summarizeChunk resolving as it would with unshift in place of push
ChunkSummarizedUnshift ==
    /\ pc = "request"
    /\ \E d \in Durations, o \in Outcomes :
          /\ o.status = "ok"
          /\ Parsed[o.body].ok
          /\ now' = now + d
          /\ responses' = Append(responses, Answer(o, now + d))
          /\ summaries' = <<Parsed[o.body].val>> \o summaries
    /\ tokensUsed' = tokensUsed + estimatedTokens
    /\ i' = i + 1
    /\ pc' = "loop"
    /\ UNCHANGED <<segvars, fnvars, wf, service, inChunks, startTime, wakeAt, overarching, issued,
                   s3Object, outputUrl, result, resets>>

\* summarizeChunk resolves: the answer parsed, pushed and accounted
ChunkSummarized ==
    /\ pc = "request"
    /\ \E d \in Durations, o \in Outcomes :
          /\ o.status = "ok"
          /\ Parsed[o.body].ok
          /\ now' = now + d
          /\ responses' = Append(responses, Answer(o, now + d))
          /\ summaries' = Append(summaries, Parsed[o.body].val)
    /\ tokensUsed' = tokensUsed + estimatedTokens
    /\ i' = i + 1
    /\ pc' = "loop"
    /\ UNCHANGED <<segvars, fnvars, wf, service, inChunks, startTime, wakeAt, overarching, issued,
                   s3Object, outputUrl, result, resets>>

\* summarizeChunk rejecting as it would if the loop caught the error and
\* went on to the next chunk
ChunkRequestFailsSwallowed ==
    /\ pc = "request"
    /\ \E d \in Durations, o \in Outcomes :
          /\ o.status = "error"
          /\ now' = now + d
          /\ responses' = Append(responses, Answer(o, now + d))
    /\ i' = i + 1
    /\ pc' = "loop"
    /\ UNCHANGED <<segvars, fnvars, wf, service, inChunks, tokensUsed, startTime, wakeAt, summaries,
                   overarching, issued, s3Object, outputUrl, result, resets>>

\* summarizeChunk rejecting as it would with a retry in the loop: the same
\* chunk comes round again
ChunkRequestFailsRetried ==
    /\ pc = "request"
    /\ \E d \in Durations, o \in Outcomes :
          /\ o.status = "error"
          /\ now' = now + d
          /\ responses' = Append(responses, Answer(o, now + d))
    /\ pc' = "loop"
    /\ UNCHANGED <<segvars, fnvars, wf, service, inChunks, i, tokensUsed, startTime, wakeAt, summaries,
                   overarching, issued, s3Object, outputUrl, result, resets>>

\* summarizeChunk rejects: axios.post failed, and the error is rethrown
ChunkRequestFails ==
    /\ pc = "request"
    /\ \E d \in Durations, o \in Outcomes :
          /\ o.status = "error"
          /\ now' = now + d
          /\ responses' = Append(responses, Answer(o, now + d))
    /\ Throw("service error")
    /\ UNCHANGED <<segvars, fnvars, wf, service, inChunks, i, tokensUsed, startTime, wakeAt, summaries,
                   overarching, issued, s3Object, outputUrl, resets>>

\* summarizeChunk rejects: robustJsonParse threw on the answer
ChunkResponseMalformed ==
    /\ pc = "request"
    /\ \E d \in Durations, o \in Outcomes :
          /\ o.status = "ok"
          /\ ~Parsed[o.body].ok
          /\ now' = now + d
          /\ responses' = Append(responses, Answer(o, now + d))
    /\ Throw("AI response was not valid JSON")
    /\ UNCHANGED <<segvars, fnvars, wf, service, inChunks, i, tokensUsed, startTime, wakeAt, summaries,
                   overarching, issued, s3Object, outputUrl, resets>>

\* the loop is over: summaries returned, and the handler sets its 15 s timer
LoopDone ==
    /\ pc = "loop"
    /\ ~(i < Len(inChunks))
    /\ wakeAt' = now + SettlingDelayMs
    /\ pc' = "settle"
    /\ UNCHANGED <<segvars, fnvars, wf, service, inChunks, i, tokensUsed, startTime, now, summaries,
                   overarching, issued, responses, s3Object, outputUrl, result,
                   resets>>

\* generateOverarchingSummary posting its request as it would without the
\* 15 s timer of the handler
PostOverarchingRequestAtOnce ==
    /\ pc = "settle"
    /\ issued' = Append(issued, [kind |-> "overarching", chunk |-> 0,
                                 at |-> now, tokens |-> 0,
                                 max_tokens |-> MAX_TOKENS_PER_REQUEST])
    /\ pc' = "aggregate"
    /\ UNCHANGED <<segvars, fnvars, wf, service, inChunks, i, tokensUsed, startTime, now, wakeAt,
                   summaries, overarching, responses, s3Object, outputUrl, result,
                   resets>>

\* the 15 s timer fires: generateOverarchingSummary posts its request
PostOverarchingRequest ==
    /\ pc = "settle"
    /\ now' = wakeAt
    /\ issued' = Append(issued, [kind |-> "overarching", chunk |-> 0,
                                 at |-> now', tokens |-> 0,
                                 max_tokens |-> MAX_TOKENS_PER_REQUEST])
    /\ pc' = "aggregate"
    /\ UNCHANGED <<segvars, fnvars, wf, service, inChunks, i, tokensUsed, startTime, wakeAt, summaries,
                   overarching, responses, s3Object, outputUrl, result, resets>>

\* generateOverarchingSummary resolves; finalSummary is built and
\* s3.putObject is called
OverarchingSummarized ==
    /\ pc = "aggregate"
    /\ \E o \in Outcomes :
          /\ o.status = "ok"
          /\ Parsed[o.body].ok
          /\ responses' = Append(responses, Answer(o, now + 1000))
          /\ overarching' = Parsed[o.body].val
    /\ now' = now + 1000
    /\ pc' = "putObject"
    /\ UNCHANGED <<segvars, fnvars, wf, service, inChunks, i, tokensUsed, startTime, wakeAt, summaries,
                   issued, s3Object, outputUrl, result, resets>>

\* generateOverarchingSummary rejects: axios.post failed
OverarchingRequestFails ==
    /\ pc = "aggregate"
    /\ \E o \in Outcomes :
          /\ o.status = "error"
          /\ responses' = Append(responses, Answer(o, now + 1000))
    /\ now' = now + 1000
    /\ Throw("service error")
    /\ UNCHANGED <<segvars, fnvars, wf, service, inChunks, i, tokensUsed, startTime, wakeAt, summaries,
                   overarching, issued, s3Object, outputUrl, resets>>

\* generateOverarchingSummary rejects: robustJsonParse threw
OverarchingResponseMalformed ==
    /\ pc = "aggregate"
    /\ \E o \in Outcomes :
          /\ o.status = "ok"
          /\ ~Parsed[o.body].ok
          /\ responses' = Append(responses, Answer(o, now + 1000))
    /\ now' = now + 1000
    /\ Throw("AI response was not valid JSON")
    /\ UNCHANGED <<segvars, fnvars, wf, service, inChunks, i, tokensUsed, startTime, wakeAt, summaries,
                   overarching, issued, s3Object, outputUrl, resets>>

finalSummary ==
    [id |-> "id", sections |-> summaries, overarchingSummary |-> overarching]

\* s3.putObject resolves; dynamoDb.update is called
PutObjectDone ==
    /\ pc = "putObject"
    /\ s3Object' = Append(s3Object, finalSummary)
    /\ pc' = "update"
    /\ UNCHANGED <<segvars, fnvars, wf, service, inChunks, i, tokensUsed, startTime, now, wakeAt,
                   summaries, overarching, issued, responses, outputUrl, result,
                   resets>>

\* s3.putObject rejecting as it would if the error were logged and the
\* handler went on to the update
PutObjectFailsIgnored ==
    /\ pc = "putObject"
    /\ pc' = "update"
    /\ UNCHANGED <<segvars, fnvars, wf, service, inChunks, i, tokensUsed, startTime,
                   now, wakeAt, summaries, overarching, issued, responses, s3Object,
                   outputUrl, result, resets>>

\* s3.putObject rejects: caught and rethrown as an error saving the summary
PutObjectFails ==
    /\ pc = "putObject"
    /\ Throw("Error saving summary")
    /\ UNCHANGED <<segvars, fnvars, wf, service, inChunks, i, tokensUsed, startTime, now, wakeAt,
                   summaries, overarching, issued, responses, s3Object,
                   outputUrl, resets>>

\* dynamoDb.update resolves; the handler returns success
UpdateDone ==
    /\ pc = "update"
    /\ outputUrl' = "summaries/id_final_summary.json"
    /\ result' = "success"
    /\ pc' = "done"
    /\ UNCHANGED <<segvars, fnvars, wf, service, inChunks, i, tokensUsed, startTime, now, wakeAt,
                   summaries, overarching, issued, responses, s3Object, resets>>

\* dynamoDb.update rejects: caught and rethrown
UpdateFails ==
    /\ pc = "update"
    /\ Throw("Error saving summary")
    /\ UNCHANGED <<segvars, fnvars, wf, service, inChunks, i, tokensUsed, startTime, now, wakeAt,
                   summaries, overarching, issued, responses, s3Object,
                   outputUrl, resets>>

Next ==
    \/ FetchChunks
    \/ FetchChunksFails
    \/ IssueWithinBudget
    \/ Throttle
    \/ ThrottleWake
    \/ ResetWithoutWait
    \/ ChunkSummarized
    \/ ChunkRequestFails
    \/ ChunkResponseMalformed
    \/ LoopDone
    \/ PostOverarchingRequest
    \/ OverarchingSummarized
    \/ OverarchingRequestFails
    \/ OverarchingResponseMalformed
    \/ PutObjectDone
    \/ PutObjectFails
    \/ UpdateDone
    \/ UpdateFails

Spec == Init /\ [][Next]_vars

\* the handler's code runs on, a timer that was set fires, and every request
\* to the generation service or to the stores is answered or fails
LiveSpec == Spec /\ WF_vars(Next)

\* the handler on entry, with a service that may answer with JSON of another
\* structure than the one asked for
OtherInit ==
    /\ SegIdle
    /\ inChunks \in ChunkSeqs
    /\ pc = "start"
    /\ i = 0
    /\ tokensUsed = 0
    /\ startTime = 0
    /\ now = 0
    /\ wakeAt = 0
    /\ summaries = <<>>
    /\ overarching = <<>>
    /\ issued = <<>>
    /\ responses = <<>>
    /\ s3Object = <<>>
    /\ outputUrl = ""
    /\ result = ""
    /\ resets = <<>>
    /\ service = SummaryOrOther

OtherSpec == OtherInit /\ [][Next]_vars

\* a timer that was set fires: the throttle wait and the settling delay end
FairSpec == Spec /\ WF_vars(ThrottleWake) /\ WF_vars(PostOverarchingRequest)

(***************************************************************************)
(* Properties of the Segmentation Engine (checked under SegSpec)           *)
(***************************************************************************)
RECURSIVE ConcatContents(_)
ConcatContents(chunks) ==
    IF chunks = <<>> THEN <<>>
    ELSE Head(chunks).chunkContent \o ConcatContents(Tail(chunks))

RECURSIVE StripWs(_)
StripWs(s) ==
    IF s = <<>> THEN <<>>
    ELSE IF Head(s) \in Whitespace THEN StripWs(Tail(s))
    ELSE <<Head(s)>> \o StripWs(Tail(s))

\* the number of sentences of c: its terminators, and one more for text
\* left after the last terminator
SentenceCount(c) ==
    LET ends == {q \in 1..Len(c) : c[q] \in Terminators}
        last == IF ends = {} THEN 0 ELSE CHOOSE e \in ends : \A f \in ends : f <= e
    IN  Cardinality(ends) + (IF Trim(Slice(c, last, Len(c))) # <<>> THEN 1 ELSE 0)

ChapterOne == <<"C","h","a","p","t","e","r"," ","1","."," ",
                "H","e","l","l","o"," ","w","o","r","l","d",".">>
ChapterTwo == <<"C","h","a","p","t","e","r"," ","2","."," ",
                "G","o","o","d","b","y","e"," ","w","o","r","l","d",".">>

\* C2: with the structural strategy and a large cap, the text
\* "Chapter 1. Hello world. Chapter 2. Goodbye world." yields exactly the two
\* chunks Chapter 1.1 and Chapter 2.1, in order, each with its chapter's text.
C2_ScenarioTwoChapters ==
    (segpc = "structural" /\ text = ScenarioText /\ cap = chunkSize)
        => outChunks = <<Chunk("Chapter 1.1", ChapterOne),
                         Chunk("Chapter 2.1", ChapterTwo)>>

\* C3: when the marker occurs k >= 1 times, the structural strategy yields
\* before size-bounding k chunks (k + 1 when the text before the first marker
\* is not empty after trimming), and the chunk contents concatenated are the
\* text up to white space.
C3_MarkerCountAndCoverage ==
    LET ms == chapterMatches(text)
        k == Len(ms)
        prefix == IF k >= 1 /\ Trim(Slice(text, 0, ms[1])) # <<>> THEN 1 ELSE 0
    IN  (segpc = "structural" /\ k >= 1)
            => /\ Len(rawChunks) = k + prefix
               /\ StripWs(ConcatContents(rawChunks)) = StripWs(text)

\* C4: after fallback splitting (structural strategy and flat strategy) every
\* chunk is at most the cap long, unless it is one single sentence that alone
\* exceeds the cap.
C4_ChunksWithinCap ==
    segpc \in {"structural", "flat"}
        => \A n \in 1..Len(outChunks) :
              \/ Len(outChunks[n].chunkContent) <= cap
              \/ SentenceCount(outChunks[n].chunkContent) <= 1

\* C5: no chunk returned by either strategy or by the fallback has a content
\* that is empty after trimming; the empty text yields no chunk.
C5_NoEmptyChunk ==
    segpc \in {"structural", "flat", "fallback"}
        => \A n \in 1..Len(outChunks) : Trim(outChunks[n].chunkContent) # <<>>

\* C10: a text without structural marker that does not exceed the cap yields
\* under the structural strategy exactly one chunk, named "Section 1.1",
\* whose content is the whole text.
C10_NoMarkerOneSection ==
    (segpc = "structural" /\ chapterMatches(text) = <<>> /\ Len(text) <= cap)
        => /\ Len(outChunks) = 1
           /\ outChunks[1].chunkName = "Section 1.1"
           /\ outChunks[1].chunkContent = text

\* a text without marker, with white space at an end, chunked structurally
C10_Witness ==
    /\ segpc = "structural"
    /\ chapterMatches(text) = <<>>
    /\ Len(text) >= 3
    /\ Len(text) <= cap
    /\ Head(text) \in Whitespace
    /\ outChunks # <<>>

NoTerminator(s) == \A q \in 1..Len(s) : s[q] \notin Terminators

\* C11: under the flat strategy a text without sentence terminator that is
\* longer than the cap is split into more than one chunk, named "Section 1",
\* "Section 2", ... in order, each at most the cap long, and the contents
\* concatenated give back the words of the text.
C11_FlatNoTerminatorSplit ==
    (segpc = "flat" /\ NoTerminator(text) /\ Len(text) > cap)
        => /\ Len(outChunks) > 1
           /\ \A n \in 1..Len(outChunks) :
                 /\ outChunks[n].chunkName = "Section " \o ToString(n)
                 /\ Len(outChunks[n].chunkContent) <= cap
           /\ StripWs(ConcatContents(outChunks)) = StripWs(text)

\* C12: fallbackChunking run again, with the same cap, on the content of a
\* sub-chunk it produced returns exactly one chunk with the same words.
C12_FallbackIdempotent ==
    segpc = "fallback"
        => \A n \in 1..Len(outChunks) :
              LET again == fallbackChunking(outChunks[n].chunkContent, "Base", cap)
              IN  /\ Len(again) = 1
                  /\ StripWs(again[1].chunkContent)
                        = StripWs(outChunks[n].chunkContent)

\* C14: the names of the chunks of a returned sequence are pairwise distinct,
\* for both strategies and with the fallback sub-chunks in place.
C14_NamesDistinct ==
    segpc \in {"structural", "flat"}
        => \A m, n \in 1..Len(outChunks) :
              outChunks[m].chunkName = outChunks[n].chunkName => m = n

\* a structural result with a catch-up chapter chunk and, around it, two
\* chunks that went through the fallback
C14_Witness ==
    /\ segpc = "structural"
    /\ Len(chapterMatches(text)) >= 3
    /\ Len(rawChunks) >= 3
    /\ Len(outChunks) > Len(rawChunks) + 1

\* C19: for each of the k markers, at m_1 < ... < m_k, the structural result
\* before size-bounding has a chunk "Chapter i.1" whose content is the
\* trimmed text from m_i to m_(i+1), or to the end of the text for i = k;
\* no marker's text comes under a Suffix name or is left out.
C19_EveryMarkerItsChapter ==
    LET ms == chapterMatches(text)
        k == Len(ms)
        span(c) == Trim(Slice(text, ms[c], IF c < k THEN ms[c + 1] ELSE Len(text)))
    IN  segpc = "structural"
            => /\ \A c \in 1..k :
                     \E n \in 1..Len(rawChunks) :
                         rawChunks[n] = Chunk(ChapterName(c, 1), span(c))
               /\ \A n \in 1..Len(rawChunks) :
                     rawChunks[n].chunkName
                         \notin {"Suffix " \o ToString(c) \o ".1" : c \in 1..(k + 1)}

\* C20: fallbackChunking flushes what is left when the sentences run out:
\* the sentences after the last full group of four and the text after the
\* last terminator are in the last sub-chunk, so the sub-chunk contents
\* concatenated hold every sentence of the input once, in order.
C20_FallbackKeepsTail ==
    segpc = "fallback"
        => StripWs(ConcatContents(outChunks)) = StripWs(text)

\* C21: the flat strategy keeps the words of every text: the chunk contents
\* concatenated are the text up to white space, so every sentence (also of a
\* text of fewer than four sentences or without terminator, within the cap)
\* is in one chunk, in order, and the chunks are named "Section 1",
\* "Section 2", ... without gaps.
C21_FlatKeepsWords ==
    segpc = "flat"
        => /\ StripWs(ConcatContents(outChunks)) = StripWs(text)
           /\ \A n \in 1..Len(outChunks) :
                 outChunks[n].chunkName = "Section " \o ToString(n)

(***************************************************************************)
(* Properties of estimateTokens (checked under EstSpec)                    *)
(***************************************************************************)
\* the pieces of s between runs of white space: one more than the runs
PieceCount(s) ==
    Cardinality({q \in 1..Len(s) :
                    s[q] \in Whitespace /\ (q = 1 \/ s[q - 1] \notin Whitespace)}) + 1

\* e is the least integer not below w * 1.33
IsCeilOf133(e, w) == e * 100 >= w * 133 /\ (e - 1) * 100 < w * 133

\* C13: estimateTokens returns ceil(wordCount * 1.33), wordCount being the
\* number of pieces between runs of white space, so the text determines the
\* estimate; and the estimate of a text with content appended that is not
\* empty after trimming is at least the estimate of the text.
C13_EstimateCeilMonotonic ==
    segpc = "estimated"
        => /\ IsCeilOf133(est.a, PieceCount(text))
           /\ IsCeilOf133(est.b, PieceCount(text \o est.appended))
           /\ est.b >= est.a

\* a text ending in white space, whose last piece is empty, with content
\* appended that brings a further piece
C13_Witness ==
    /\ segpc = "estimated"
    /\ text # <<>>
    /\ text[Len(text)] \in Whitespace
    /\ Head(est.appended) \notin Whitespace
    /\ est.a >= 4
    /\ est.b > est.a

(***************************************************************************)
(* Properties of the Summarization Controller (checked under Spec)         *)
(***************************************************************************)
ChunkRequests == {j \in 1..Len(issued) : issued[j].kind = "chunk"}

RECURSIVE SumTokens(_)
SumTokens(js) ==
    IF js = {} THEN 0
    ELSE LET j == CHOOSE x \in js : TRUE
         IN  issued[j].tokens + SumTokens(js \ {j})

\* the estimated tokens of the chunk requests posted in the 65 s that start
\* with request j
WindowTokens(j) ==
    SumTokens({m \in ChunkRequests :
                  /\ issued[j].at <= issued[m].at
                  /\ issued[m].at < issued[j].at + ThrottleWindowMs})

\* C1: the estimated tokens of the per-chunk requests posted inside any
\* rolling 65-second window never exceed MAX_TOKENS_PER_MINUTE.
C1_RollingWindowBudget ==
    \A j \in ChunkRequests : WindowTokens(j) <= MAX_TOKENS_PER_MINUTE

\* the plain-prose answers among the answers the service may give
ProseTexts == {r \in ResponseTexts : IsProse(r)}

Malformed(j) == ~Parsed[responses[j].body].ok

\* C6: a plain-prose answer makes the run fail with the malformed-response
\* error; no summary value is taken from it, neither into the summaries nor
\* as the overarching summary.
C6_ProseFailsRun ==
    \A j \in 1..Len(responses) :
        (responses[j].status = "ok" /\ responses[j].body \in ProseTexts)
            => /\ pc = "failed"
               /\ result = "AI response was not valid JSON"
               /\ Len(summaries) < j
               /\ overarching = <<>>
               /\ s3Object = <<>>

\* a run whose second chunk was answered in prose after the first summary
\* had been pushed
C6_Witness ==
    /\ Len(responses) = 2
    /\ responses[1].status = "ok"
    /\ responses[2].status = "ok"
    /\ responses[2].body \in ProseTexts
    /\ Len(summaries) = 1

RequestFailed ==
    \E j \in 1..Len(responses) : responses[j].status = "error" \/ Malformed(j)

\* C7: when a per-chunk request or the aggregation request fails, the handler
\* returns no success, puts no final-summary object and leaves the metadata
\* record alone; an object put holds all n summaries and the overarching
\* summary.
C7_NoPartialFinalResult ==
    /\ RequestFailed => (result # "success" /\ s3Object = <<>> /\ outputUrl = "")
    /\ \A k \in 1..Len(s3Object) :
          /\ Len(s3Object[k].sections) = Len(inChunks)
          /\ s3Object[k].sections = summaries
          /\ s3Object[k].overarchingSummary # <<>>
          /\ Len(responses) = Len(inChunks) + 1
    /\ result = "success" => Len(s3Object) = 1
    /\ outputUrl # "" => Len(s3Object) = 1

\* the aggregation request failed after two chunks had been summarized
C7_Witness ==
    /\ pc = "failed"
    /\ Len(inChunks) = 2
    /\ Len(summaries) = 2
    /\ Len(responses) = 3
    /\ responses[3].status = "error"

\* C8: the j-th summary is the parsed answer to the request posted for chunk
\* j, whatever throttle waits occurred, and once the loop is over there are
\* exactly n summaries.
C8_SummariesInChunkOrder ==
    /\ Len(summaries) <= Len(responses)
    /\ Len(summaries) <= Len(issued)
    /\ \A j \in 1..Len(summaries) :
          /\ issued[j].kind = "chunk"
          /\ issued[j].chunk = j
          /\ responses[j].status = "ok"
          /\ summaries[j] = Parsed[responses[j].body].val
    /\ pc \in {"settle", "aggregate", "putObject", "update", "done"}
          => Len(summaries) = Len(inChunks)

\* three chunks summarized with differing answers and a throttle wait
C8_Witness ==
    /\ pc = "settle"
    /\ Len(summaries) = 3
    /\ summaries[1] # summaries[2]
    /\ resets # <<>>

C15_AggregationAfterSettling ==
    /\ \A j \in 1..Len(issued) :
          issued[j].kind = "overarching"
              => /\ Len(summaries) = Len(inChunks)
                 /\ Len(responses) >= j - 1
                 /\ issued[j].at >= (IF j > 1 THEN responses[j - 1].at ELSE 0)
                                       + SettlingDelayMs
                 /\ \A m \in (j + 1)..Len(issued) : issued[m].kind # "chunk"
    /\ pc = "settle"
          => /\ Len(issued) = Len(inChunks)
             /\ Len(responses) = Len(inChunks)
             /\ wakeAt = now + SettlingDelayMs

\* the aggregation request posted after three chunks and a throttle wait
C15_Witness ==
    /\ pc = "aggregate"
    /\ Len(inChunks) = 3
    /\ resets # <<>>
    /\ issued[4].kind = "overarching"
    /\ issued[4].at = responses[3].at + SettlingDelayMs

\* C16: a generation request that fails with a service error makes the run
\* fail; no request is posted after it, neither for a later chunk nor for
\* the aggregation, and no chunk has more than one request.
C16_ServiceErrorEndsRun ==
    /\ \A j \in 1..Len(responses) :
          responses[j].status = "error"
              => /\ pc = "failed"
                 /\ result = "service error"
                 /\ Len(issued) = j
                 /\ Len(responses) = j
    /\ \A m, n \in ChunkRequests : issued[m].chunk = issued[n].chunk => m = n

\* the request for the second of three chunks failed
C16_Witness ==
    /\ pc = "failed"
    /\ Len(inChunks) = 3
    /\ Len(responses) = 2
    /\ responses[2].status = "error"
    /\ Len(issued) = 2

\* C17: tokensUsed is reset exactly when a window boundary is crossed: a
\* request is never posted 65 s or more after the start of the window it is
\* counted in (the counter was reset first), a reset never comes less than
\* 65 s after the start of the window it ends, and tokensUsed is not negative.
C17_ResetExactlyAtBoundary ==
    /\ pc = "request"
          => issued[Len(issued)].at - startTime < ThrottleWindowMs
    /\ \A k \in 1..Len(resets) :
          resets[k] - (IF k > 1 THEN resets[k - 1] ELSE 0) >= ThrottleWindowMs
    /\ tokensUsed >= 0

\* what a step does around the throttle wait
ThrottleStep ==
    LET exceeded == /\ pc = "loop"
                    /\ i < Len(inChunks)
                    /\ tokensUsed + estimatedTokens > MAX_TOKENS_PER_MINUTE
        elapsedTime == now - startTime
        posted == /\ pc' = "request"
                  /\ Len(issued') = Len(issued) + 1
                  /\ issued'[Len(issued')].kind = "chunk"
                  /\ issued'[Len(issued')].chunk = i + 1
                  /\ issued'[Len(issued')].at = now'
        reset == tokensUsed' = 0 /\ startTime' = now'
    IN  /\ (exceeded /\ elapsedTime < ThrottleWindowMs)
              => /\ pc' = "throttled"
                 /\ wakeAt' - now = ThrottleWindowMs - elapsedTime
                 /\ UNCHANGED <<i, tokensUsed, startTime, now, issued, resets>>
        /\ (exceeded /\ elapsedTime >= ThrottleWindowMs)
              => now' = now /\ reset /\ posted
        /\ pc = "throttled"
              => now' = wakeAt /\ reset /\ posted
        /\ (pc = "throttled" \/ pc' = "throttled") => i' = i
        /\ pc' = "throttled" => issued' = issued
        /\ resets' # resets => now' - startTime >= ThrottleWindowMs

\* C18: when the next chunk's estimate would exceed the budget the controller
\* waits for exactly 65 s less the time elapsed since the window start, or
\* not at all when 65 s or more have elapsed, then sets tokensUsed to 0 and
\* the window start to now, and only then posts that chunk's request; no
\* request is posted while it waits, every reset comes 65 s or more after
\* the start of the window before, and a wait always ends with the request
\* posted.
C18_ThrottleStep ==
    /\ [][ThrottleStep]_vars
    /\ (pc = "throttled") ~> (pc = "request")

\* after a throttle wait that began part-way through the window, the reset
\* is done and the request posted
C18_Witness ==
    /\ pc = "request"
    /\ resets # <<>>
    /\ wakeAt = now
    /\ startTime = now
    /\ tokensUsed = 0
    /\ responses # <<>>
    /\ responses[Len(responses)].at > now - ThrottleWindowMs
    /\ issued[Len(issued)].at = now

\* the start of window k: the handler's start for k = 0, reset k after it
WindowStart(k) == IF k = 0 THEN 0 ELSE resets[k]

\* the chunk requests posted in window k, between reset k and the next one
WindowRequests(k) ==
    {j \in ChunkRequests :
        /\ WindowStart(k) <= issued[j].at
        /\ k < Len(resets) => issued[j].at < resets[k + 1]}

EstimatesWithinBudget ==
    \A j \in 1..Len(inChunks) :
        estimateTokens(inChunks[j].words) <= MAX_TOKENS_PER_MINUTE

\* C25: when no chunk's estimate exceeds MAX_TOKENS_PER_MINUTE, tokensUsed
\* never exceeds it, and neither does the sum of the estimates of the
\* requests posted between two consecutive resets.
C25_WindowSumWithinBudget ==
    EstimatesWithinBudget
        => /\ tokensUsed <= MAX_TOKENS_PER_MINUTE
           /\ \A k \in 0..Len(resets) :
                 SumTokens(WindowRequests(k)) <= MAX_TOKENS_PER_MINUTE

\* three chunks within the budget each, a reset before the third, and two
\* requests counted in the first window
C25_Witness ==
    /\ EstimatesWithinBudget
    /\ pc = "settle"
    /\ Len(inChunks) = 3
    /\ Len(resets) = 1
    /\ Cardinality(WindowRequests(0)) = 2
    /\ tokensUsed > 0

\* summarizeChunksWithRateLimit has returned its summaries or thrown
LoopFinished ==
    \/ pc = "failed"
    \/ /\ pc \in {"settle", "aggregate", "putObject", "update", "done"}
       /\ Len(summaries) = Len(inChunks)

\* a suspension begins in the loop, before the request of the chunk at the
\* loop index, and lasts 65 s at most; when it ends that request is posted
SuspendStep ==
    /\ pc' = "throttled"
          => /\ pc = "loop"
             /\ Len(issued) = i
             /\ wakeAt' - now <= ThrottleWindowMs
             /\ now' = now
    /\ pc = "throttled"
          => /\ pc' = "request"
             /\ now' - now <= ThrottleWindowMs
             /\ Len(issued') = i + 1
             /\ issued'[i + 1].chunk = i + 1

\* C26: when every generation request returns or fails,
\* summarizeChunksWithRateLimit finishes, with n summaries or with an error;
\* it suspends at most once for each chunk, for 65 s at most.
C26_LoopTerminates ==
    /\ [][SuspendStep]_vars
    /\ <>LoopFinished

\* the loop finished after two suspensions, before the second and before
\* the third of three chunks
C26_Witness ==
    /\ pc = "settle"
    /\ Len(inChunks) = 3
    /\ Len(resets) = 2
    /\ resets[1] = ThrottleWindowMs
    /\ resets[2] = 2 * ThrottleWindowMs

\* C27: outputUrl of the metadata record is set only after the final-summary
\* object was put: while no object is there, and when the put failed, the
\* record is as it was; once outputUrl is set the object is there and holds
\* the id, the summaries of all n chunks and the overarching summary.
C27_OutputUrlAfterObject ==
    /\ s3Object = <<>> => outputUrl = ""
    /\ pc \in {"putObject", "update", "failed"} => outputUrl = ""
    /\ outputUrl # ""
          => /\ pc = "done"
             /\ Len(s3Object) = 1
             /\ s3Object[1].id = "id"
             /\ s3Object[1].sections = summaries
             /\ Len(s3Object[1].sections) = Len(inChunks)
             /\ s3Object[1].overarchingSummary = overarching
             /\ overarching # <<>>

\* the record updated after the object of a run over two chunks was put
C27_Witness ==
    /\ pc = "done"
    /\ outputUrl = "summaries/id_final_summary.json"
    /\ Len(inChunks) = 2
    /\ Len(s3Object) = 1
    /\ Len(s3Object[1].sections) = 2

(***************************************************************************)
(* Properties of the handler with answers of another structure (checked    *)
(* under OtherSpec)                                                        *)
(***************************************************************************)
\* the answers that are JSON but no object
NoObjectTexts == {r \in ResponseTexts : Parsed[r].ok /\ Head(Parsed[r].val) # "{"}

\* C22: an answer that is JSON after marker stripping but not of the
\* expected structure, such as a bare number, makes the run fail with the
\* malformed-response error; it is taken neither as a chunk summary nor as
\* the overarching summary, and does not reach the final-summary object.
C22_OtherStructureRejected ==
    \A j \in 1..Len(responses) :
        (responses[j].status = "ok" /\ responses[j].body \in NoObjectTexts)
            => /\ pc = "failed"
               /\ result = "AI response was not valid JSON"
               /\ Len(summaries) < j
               /\ overarching = <<>>
               /\ s3Object = <<>>

(***************************************************************************)
(* Properties of robustJsonParse (checked under ParseSpec)                 *)
(***************************************************************************)
\* C23: for a text that is a JSON object, robustJsonParse of the text as it
\* is, of the text between plain markers and of the text between a json
\* marker and a plain marker return the same value, which is the value
\* JSON.parse gives of the text.
C23_FencedSameAsPlain ==
    (parse.done /\ parse.plain.ok /\ Head(parse.plain.val) = "{")
        => /\ parse.unfenced = parse.fenced
           /\ parse.unfenced = parse.fencedJson
           /\ parse.unfenced = parse.plain

(***************************************************************************)
(* Properties of the workflow (checked under WfSpec)                       *)
(***************************************************************************)
\* the get-file handler found no record, an unsupported type, or a storage
\* or extraction error
GetFileFailed == wf.output # <<>> /\ "statusCode" \in DOMAIN wf.output

\* C24: a failure of the get-file stage ends the execution as failed; the
\* smart-chunk stage is never invoked with what a failed get-file stage
\* returned.
C24_GetFileFailureAborts ==
    GetFileFailed
        => /\ wf.stage \in {"getFileReturned", "end"}
           /\ wf.event = <<>>
           /\ wf.stage = "end" => wf.execution = "FAILED"

====
